---- MODULE Spec2Model ----
(***************************************************************************)
(* The dialog bridge of browser/api/atom_api_dialog.cc: the three entry    *)
(* points ShowMessageBox, ShowOpenDialog and ShowSaveDialog, the value     *)
(* coercions FromV8Value / ToV8Value, the completion handlers              *)
(* CallV8Function / CallV8Function2, and the native dialog layer they      *)
(* call (browser/ui/message_box.h, browser/ui/file_dialog.h).              *)
(***************************************************************************)
EXTENDS Integers, Sequences, FiniteSets, TLC

\* Number of entry-point calls a behaviour may make.
MaxCalls == 2
\* Number of times the native layer may run one bound completion handler.
MaxRuns == 2

\* Longest string argument a behaviour of SpecValues passes.
MaxLen == 2

CallIds == 1..MaxCalls
\* Storage cells of the engine's persistent (global) handles.
Cells == 1..MaxCalls

VARIABLES
    pc,         \* pc[c]: where call c's entry point is
    op,         \* op[c]: the operation call c invoked
    args,       \* args[c]: the scripting values passed to call c
    callback,   \* callback[c]: the cell held by c's v8::Persistent (0: empty)
    cellFn,     \* cellFn[k]: the function cell k references (NoFn: disposed)
    nativeCall, \* nativeCall[c]: the native primitive c invoked
    bound,      \* bound[c]: the closure base::Bind made, as the native layer holds it
    runs,       \* runs[c]: times the native layer ran c's completion handler
    fires,      \* fires[c]: invocations of the function passed to call c
    outcome,    \* outcome[c]: the result of c's native dialog
    thread,     \* thread[c]: the thread the native layer completes c on
    ret,        \* ret[c]: what the entry point returned or threw
    crashed     \* the process died (undefined behaviour took that outcome)

vars == <<pc, op, args, callback, cellFn, nativeCall, bound, runs, fires,
          outcome, thread, ret, crashed>>

----------------------------------------------------------------------------
(* Scripting values: a tag and the payload of that tag. A number is the     *)
(* integer h * 2^32 + n, with n in the range of a 32-bit signed int.        *)

Undefined == [t |-> "undefined", h |-> 0, n |-> 0, s |-> <<>>, a |-> <<>>]
Number(i) == [t |-> "number", h |-> 0, n |-> i, s |-> <<>>, a |-> <<>>]
WideNumber(hi, i) == [t |-> "number", h |-> hi, n |-> i, s |-> <<>>, a |-> <<>>]
String(bytes) == [t |-> "string", h |-> 0, n |-> 0, s |-> bytes, a |-> <<>>]
Array(elems) == [t |-> "array", h |-> 0, n |-> 0, s |-> <<>>, a |-> elems]
\* An object; w is the native window its api::Window wrapper holds (0: none).
Object(w) == [t |-> "object", h |-> 0, n |-> w, s |-> <<>>, a |-> <<>>]
\* A function; f identifies it.
Function(f) == [t |-> "function", h |-> 0, n |-> f, s |-> <<>>, a |-> <<>>]

IsNumber(v) == v.t = "number"
IsString(v) == v.t = "string"
IsFunction(v) == v.t = "function"
\* Arrays and functions are objects too.
IsObject(v) == v.t \in {"object", "array", "function"}
\* Mutant: the buttons check done with IsObject.
IsArray_AnyObject(v) == IsObject(v)
IsArray(v) == v.t = "array"

\* args[i]: positions past the last argument read as undefined.
Arg(a, i) == IF i < Len(a) THEN a[i + 1] ELSE Undefined

----------------------------------------------------------------------------
(* FromV8Value: scripting value to native value.                            *)

\* std::string built from the char* of a Utf8Value: it ends at the first
\* zero byte.
RECURSIVE CString(_)
CString(bytes) ==
    IF bytes = <<>> \/ Head(bytes) = 0
    THEN <<>>
    ELSE <<Head(bytes)>> \o CString(Tail(bytes))

FromV8String(v) == CString(v.s)

\* IntegerValue() is 64 bits wide; the int it is assigned to keeps the low
\* 32 bits.
FromV8Int(v) == v.n

FromV8FilePath(v) == FromV8String(v)

\* Window::Unwrap and Window::window(): the native window the object's
\* wrapper holds, 0 when the object carries none.
UnwrapWindow(v) == IF v.t = "object" THEN v.n ELSE 0

\* Mutant: the wrapper is read without the IsObject test.
FromV8Window_NoObjectTest(v) == v.n
FromV8Window(v) ==
    IF IsObject(v) /\ UnwrapWindow(v) # 0
    THEN UnwrapWindow(v)
    ELSE 0

\* Mutant: the callback conversion tests IsObject.
FromV8Function_AnyObject(v) == IsObject(v)
\* TRUE iff the conversion to v8::Persistent<v8::Function> makes a new handle.
FromV8Function(v) == IsFunction(v)

NoFn == [call |-> 0, fn |-> 0]

\* The cell v8::Persistent::New takes: the engine reuses a disposed cell
\* before it takes a fresh one.
FreeCells == {k \in Cells : cellFn[k] = NoFn}
\* Mutant: the handle is made in the first cell, free or not.
NewCell_Shared == CHOOSE k \in Cells : \A j \in Cells : k <= j
NewCell == CHOOSE k \in FreeCells : \A j \in FreeCells : k <= j

----------------------------------------------------------------------------
(* ToV8Value: native value to scripting value.                              *)

ToV8ValuePath(path) == String(path)
ToV8ValueVoid == Undefined
\* Mutant: a negative code is taken for "no result".
ToV8ValueInt_NegativeIsVoid(code) == IF code < 0 THEN Undefined ELSE Number(code)
ToV8ValueInt(code) == Number(code)
\* Mutant: the loop stops one element early.
ToV8ValuePaths_OffByOne(paths) ==
    Array([i \in 1..(Len(paths) - 1) |-> ToV8ValuePath(paths[i]).s])
ToV8ValuePaths(paths) ==
    Array([i \in 1..Len(paths) |-> ToV8ValuePath(paths[i]).s])

\* v8::Integer::New(chosen)
IntegerNew(i) == Number(i)

----------------------------------------------------------------------------
(* Native dialog outcomes and native primitive invocations.                 *)

MsgOutcome(chosen) == [ok |-> TRUE, code |-> chosen, paths |-> <<>>, path |-> <<>>]
OpenOutcome(ok, paths) == [ok |-> ok, code |-> 0, paths |-> paths, path |-> <<>>]
SaveOutcome(ok, path) == [ok |-> ok, code |-> 0, paths |-> <<>>, path |-> path]
NoOutcome == [ok |-> FALSE, code |-> 0, paths |-> <<>>, path |-> <<>>]

NoNativeCall ==
    [prim |-> "none", form |-> "none", window |-> 0, kind |-> 0,
     buttons |-> <<>>, title |-> <<>>, message |-> <<>>, detail |-> <<>>,
     default_path |-> <<>>, properties |-> 0]

NoRet == [kind |-> "none", val |-> Undefined, msg |-> ""]
Return(v) == [kind |-> "value", val |-> v, msg |-> ""]
\* node::ThrowTypeError
ThrowTypeError(m) == [kind |-> "TypeError", val |-> Undefined, msg |-> m]

----------------------------------------------------------------------------

Init ==
    /\ pc = [c \in CallIds |-> "idle"]
    /\ op = [c \in CallIds |-> "none"]
    /\ args = [c \in CallIds |-> <<>>]
    /\ callback = [c \in CallIds |-> 0]
    /\ cellFn = [k \in Cells |-> NoFn]
    /\ nativeCall = [c \in CallIds |-> NoNativeCall]
    /\ bound = [c \in CallIds |-> "none"]
    /\ runs = [c \in CallIds |-> 0]
    /\ fires = [c \in CallIds |-> <<>>]
    /\ outcome = [c \in CallIds |-> NoOutcome]
    /\ thread = [c \in CallIds |-> "none"]
    /\ ret = [c \in CallIds |-> NoRet]
    /\ crashed = FALSE

\* The engine runs one entry point at a time, and calls are made in order.
EngineFree(c) ==
    /\ ~crashed
    /\ pc[c] = "idle"
    /\ \A d \in CallIds : pc[d] \notin {"native_sync", "native_async"}
    /\ \A d \in CallIds : d < c => pc[d] # "idle"

\* Mutant: the synchronous primitive is called whatever the handle is.
Invoke_AlwaysSync(c, cb, nc) ==
    /\ IF FromV8Function(cb)
       THEN /\ callback' = [callback EXCEPT ![c] = NewCell]
            /\ cellFn' = [cellFn EXCEPT ![NewCell] = [call |-> c, fn |-> cb.n]]
       ELSE UNCHANGED <<callback, cellFn>>
    /\ nativeCall' = [nativeCall EXCEPT ![c] = [nc EXCEPT !.form = "sync"]]
    /\ pc' = [pc EXCEPT ![c] = "native_sync"]
    /\ UNCHANGED <<bound, ret>>
\* The coercion of the callback argument and the choice of the path:
\* callback.IsEmpty() selects the synchronous primitive.
Invoke(c, cb, nc) ==
    IF FromV8Function(cb)
    THEN    /\ callback' = [callback EXCEPT ![c] = NewCell]
            /\ cellFn' = [cellFn EXCEPT ![NewCell] = [call |-> c, fn |-> cb.n]]
            /\ nativeCall' = [nativeCall EXCEPT ![c] = [nc EXCEPT !.form = "async"]]
            /\ bound' = [bound EXCEPT ![c] = "held"]
            /\ pc' = [pc EXCEPT ![c] = "native_async"]
            /\ UNCHANGED ret
    ELSE /\ nativeCall' = [nativeCall EXCEPT ![c] = [nc EXCEPT !.form = "sync"]]
         /\ pc' = [pc EXCEPT ![c] = "native_sync"]
         /\ UNCHANGED <<callback, cellFn, bound, ret>>

Reject(c) ==
    /\ pc' = [pc EXCEPT ![c] = "threw"]
    /\ ret' = [ret EXCEPT ![c] = ThrowTypeError("Bad argument")]
    /\ UNCHANGED <<callback, cellFn, nativeCall, bound>>

FromV8Buttons(v) == [i \in 1..Len(v.a) |-> CString(v.a[i])]

ShowMessageBox(c, a) ==
    /\ EngineFree(c)
    /\ op' = [op EXCEPT ![c] = "showMessageBox"]
    /\ args' = [args EXCEPT ![c] = a]
    /\ IF \/ ~IsNumber(Arg(a, 0))
          \/ ~IsArray(Arg(a, 1))
          \/ ~IsString(Arg(a, 2))
          \/ ~IsString(Arg(a, 3))
          \/ ~IsString(Arg(a, 4))
       THEN Reject(c)
       ELSE Invoke(c, Arg(a, 6),
                [NoNativeCall EXCEPT
                    !.prim = "ShowMessageBox",
                    !.window = FromV8Window(Arg(a, 5)),
                    !.kind = FromV8Int(Arg(a, 0)),
                    !.buttons = FromV8Buttons(Arg(a, 1)),
                    !.title = FromV8String(Arg(a, 2)),
                    !.message = FromV8String(Arg(a, 3)),
                    !.detail = FromV8String(Arg(a, 4))])
    /\ UNCHANGED <<runs, fires, outcome, thread, crashed>>

ShowOpenDialog(c, a) ==
    /\ EngineFree(c)
    /\ op' = [op EXCEPT ![c] = "showOpenDialog"]
    /\ args' = [args EXCEPT ![c] = a]
    /\ IF \/ ~IsString(Arg(a, 0))
          \/ ~IsString(Arg(a, 1))
          \/ ~IsNumber(Arg(a, 2))
       THEN Reject(c)
       ELSE Invoke(c, Arg(a, 4),
                [NoNativeCall EXCEPT
                    !.prim = "ShowOpenDialog",
                    !.window = FromV8Window(Arg(a, 3)),
                    !.title = FromV8String(Arg(a, 0)),
                    !.default_path = FromV8FilePath(Arg(a, 1)),
                    !.properties = FromV8Int(Arg(a, 2))])
    /\ UNCHANGED <<runs, fires, outcome, thread, crashed>>

\* Mutant: the callback is read from the window position.
ShowSaveDialog_CallbackAtWindow(c, a) ==
    /\ EngineFree(c)
    /\ op' = [op EXCEPT ![c] = "showSaveDialog"]
    /\ args' = [args EXCEPT ![c] = a]
    /\ IF \/ ~IsString(Arg(a, 0))
          \/ ~IsString(Arg(a, 1))
       THEN Reject(c)
       ELSE Invoke(c, Arg(a, 2),
                [NoNativeCall EXCEPT
                    !.prim = "ShowSaveDialog",
                    !.window = FromV8Window(Arg(a, 2)),
                    !.title = FromV8String(Arg(a, 0)),
                    !.default_path = FromV8FilePath(Arg(a, 1))])
    /\ UNCHANGED <<runs, fires, outcome, thread, crashed>>
ShowSaveDialog(c, a) ==
    /\ EngineFree(c)
    /\ op' = [op EXCEPT ![c] = "showSaveDialog"]
    /\ args' = [args EXCEPT ![c] = a]
    /\ IF \/ ~IsString(Arg(a, 0))
          \/ ~IsString(Arg(a, 1))
       THEN Reject(c)
       ELSE Invoke(c, Arg(a, 3),
                [NoNativeCall EXCEPT
                    !.prim = "ShowSaveDialog",
                    !.window = FromV8Window(Arg(a, 2)),
                    !.title = FromV8String(Arg(a, 0)),
                    !.default_path = FromV8FilePath(Arg(a, 1))])
    /\ UNCHANGED <<runs, fires, outcome, thread, crashed>>

\* The position of the window argument of each operation.
WindowIndex(o) ==
    CASE o = "showMessageBox" -> 5
      [] o = "showOpenDialog" -> 3
      [] OTHER -> 2

\* The position of the callback argument of each operation.
CallbackIndex(o) ==
    CASE o = "showMessageBox" -> 6
      [] o = "showOpenDialog" -> 4
      [] OTHER -> 3

----------------------------------------------------------------------------
(* The synchronous path: the primitive returns and the entry point          *)
(* converts its result.                                                     *)

\* Mutant: an empty list of paths is returned as one empty path.
RECURSIVE OpenResultArray_NeverEmpty(_, _)
OpenResultArray_NeverEmpty(paths, i) ==
    IF i > Len(paths)
    THEN IF i = 1 THEN <<ToV8ValuePath(<<>>).s>> ELSE <<>>
    ELSE <<ToV8ValuePath(paths[i]).s>> \o OpenResultArray_NeverEmpty(paths, i + 1)
\* The array the synchronous ShowOpenDialog builds element by element.
RECURSIVE OpenResultArray(_, _)
OpenResultArray(paths, i) ==
    IF i > Len(paths)
    THEN <<>>
    ELSE <<ToV8ValuePath(paths[i]).s>> \o OpenResultArray(paths, i + 1)

\* Mutant: the success flag of the file dialogs is read the wrong way round.
SyncResult_NegatedFlag(o, res) ==
    CASE o = "showMessageBox" -> IntegerNew(res.code)
      [] o = "showOpenDialog" ->
            IF res.ok THEN Undefined ELSE Array(OpenResultArray(res.paths, 1))
      [] OTHER ->
            IF res.ok THEN Undefined ELSE ToV8ValuePath(res.path)
SyncResult(o, res) ==
    CASE o = "showMessageBox" -> IntegerNew(res.code)
      [] o = "showOpenDialog" ->
            IF ~res.ok THEN Undefined ELSE Array(OpenResultArray(res.paths, 1))
      [] OTHER ->
            IF ~res.ok THEN Undefined ELSE ToV8ValuePath(res.path)

NativeSyncReturn(c, res) ==
    /\ ~crashed
    /\ pc[c] = "native_sync"
    /\ outcome' = [outcome EXCEPT ![c] = res]
    /\ ret' = [ret EXCEPT ![c] = Return(SyncResult(op[c], res))]
    /\ pc' = [pc EXCEPT ![c] = "returned"]
    /\ UNCHANGED <<op, args, callback, cellFn, nativeCall, bound, runs, fires,
                   thread, crashed>>

----------------------------------------------------------------------------
(* The asynchronous path.                                                   *)

\* The asynchronous primitive returns and the entry point returns undefined.
NativeAsyncReturn(c) ==
    /\ ~crashed
    /\ pc[c] = "native_async"
    /\ ret' = [ret EXCEPT ![c] = Return(Undefined)]
    /\ pc' = [pc EXCEPT ![c] = "returned"]
    /\ UNCHANGED <<op, args, callback, cellFn, nativeCall, bound, runs, fires,
                   outcome, thread, crashed>>

\* Mutant: the flag is ignored.
CallV8Function2_IgnoreFlag(result, value) == value
\* CallV8Function2: the flag chooses between the result and NULL.
CallV8Function2(result, value) == IF result THEN value ELSE ToV8ValueVoid

\* The value the completion handler bound for operation o passes on.
CompletionValue(o, res) ==
    CASE o = "showMessageBox" -> ToV8ValueInt(res.code)
      [] o = "showOpenDialog" -> CallV8Function2(res.ok, ToV8ValuePaths(res.paths))
      [] OTHER -> CallV8Function2(res.ok, ToV8ValuePath(res.path))

\* Mutant: the handle is disposed without the call.
CallV8Function_DisposeOnly(c, value, th, luck) ==
    /\ luck = "call"
    /\ cellFn' = [cellFn EXCEPT ![callback[c]] = NoFn]
    /\ UNCHANGED <<fires, crashed>>
\* Mutant: the call is made twice.
CallV8Function_CallTwice(c, value, th, luck) ==
    LET r == [fn |-> cellFn[callback[c]].fn, val |-> value, by |-> c,
              thread |-> th, pcAt |-> pc[c], live |-> TRUE]
    IN  /\ luck = "call"
        /\ fires' = [fires EXCEPT ![c] = @ \o <<r, r>>]
        /\ cellFn' = [cellFn EXCEPT ![callback[c]] = NoFn]
        /\ UNCHANGED crashed
\* CallV8Function: callback->Call(callback, 1, &value), then
\* callback.Dispose(). The handle is a copy of the bound one: a cell that was
\* disposed is still what it points at. Calling through a disposed cell, or
\* on a thread other than the engine's, is undefined: the call goes through
\* or the process dies. DCHECK(!callback.IsEmpty()) holds on every run: only a
\* non-empty handle is bound, and Dispose does not empty the bound copy.
CallV8Function(c, value, th, luck) ==
    LET k == callback[c]
        target == cellFn[k]
        undef == target = NoFn \/ th # "engine"
        f == IF target = NoFn
             THEN [call |-> c, fn |-> Arg(args[c], CallbackIndex(op[c])).n]
             ELSE target
    IN  /\ luck \in (IF undef THEN {"call", "crash"} ELSE {"call"})
        /\ IF luck = "crash"
           THEN /\ crashed' = TRUE
                /\ UNCHANGED <<fires, cellFn>>
           ELSE /\ fires' = [fires EXCEPT ![f.call] = Append(@,
                        [fn |-> f.fn, val |-> value, by |-> c, thread |-> th,
                         pcAt |-> pc[f.call], live |-> target # NoFn])]
                /\ cellFn' = [cellFn EXCEPT ![k] = NoFn]
                /\ UNCHANGED crashed

\* The native layer runs the completion handler it was given, with the
\* dialog's result, on the thread it completes this dialog on.
RunCompletion(c, res, th, luck) ==
    /\ ~crashed
    /\ bound[c] = "held"
    /\ runs[c] < MaxRuns
    /\ runs[c] > 0 => res = outcome[c] /\ th = thread[c]
    /\ runs' = [runs EXCEPT ![c] = @ + 1]
    /\ outcome' = [outcome EXCEPT ![c] = res]
    /\ thread' = [thread EXCEPT ![c] = th]
    /\ CallV8Function(c, CompletionValue(op[c], res), th, luck)
    /\ UNCHANGED <<pc, op, args, callback, nativeCall, bound, ret>>

\* The native layer destroys the completion handler: the bound copy of the
\* handle goes away, and nothing disposes the cell.
NativeDrop(c) ==
    /\ ~crashed
    /\ bound[c] = "held"
    /\ bound' = [bound EXCEPT ![c] = "dropped"]
    /\ UNCHANGED <<pc, op, args, callback, cellFn, nativeCall, runs, fires,
                   outcome, thread, ret, crashed>>

----------------------------------------------------------------------------
(* Inputs.                                                                  *)

Threads == {"engine", "other"}
Lucks == {"call", "crash"}

StrT == <<84>>
StrM == <<77>>
PathA == <<47, 97>>
PathB == <<47, 98>>

ValidPrefix(o) ==
    CASE o = "showMessageBox" ->
            <<Number(0), Array(<<StrT, StrM>>), String(StrT), String(StrM),
              String(StrM)>>
      [] o = "showOpenDialog" -> <<String(StrT), String(PathA), Number(0)>>
      [] OTHER -> <<String(StrT), String(PathA)>>

\* A valid call without a callback, one with, and a rejected one with.
CoreArgs(o) ==
    { ValidPrefix(o),
      ValidPrefix(o) \o <<Undefined, Function(1)>>,
      [ValidPrefix(o) EXCEPT ![2] = Number(1)] \o <<Undefined, Function(1)>> }

CoreOutcomes(o) ==
    CASE o = "showMessageBox" -> {MsgOutcome(-1), MsgOutcome(1)}
      [] o = "showOpenDialog" ->
            {OpenOutcome(TRUE, <<PathA, PathB>>), OpenOutcome(FALSE, <<PathA>>)}
      [] o = "showSaveDialog" -> {SaveOutcome(TRUE, PathB), SaveOutcome(FALSE, PathB)}
      [] OTHER -> {}

\* Every dialog result the native layer can report.
Outcomes(o) ==
    CASE o = "showMessageBox" -> {MsgOutcome(-1), MsgOutcome(0), MsgOutcome(2)}
      [] o = "showOpenDialog" ->
            {OpenOutcome(TRUE, <<>>), OpenOutcome(TRUE, <<PathA, PathB>>),
             OpenOutcome(FALSE, <<>>), OpenOutcome(FALSE, <<PathA>>)}
      [] o = "showSaveDialog" ->
            {SaveOutcome(TRUE, PathB), SaveOutcome(FALSE, <<>>),
             SaveOutcome(FALSE, PathB)}
      [] OTHER -> {}

\* One value of every shape.
Shapes ==
    {Undefined, Number(7), String(StrT), Array(<<StrT>>), Object(0),
     Function(1)}
WindowValues ==
    {Undefined, Number(7), String(StrT), Function(2), Object(0), Object(1)}

\* The argument lists of a caller: the checked arguments right, with every
\* window and callback value or without them, or with one more argument
\* after the callback; one checked argument of another shape; the last
\* arguments missing.
ValidArgs(o) ==
    {ValidPrefix(o)}
        \cup {ValidPrefix(o) \o <<w>> : w \in WindowValues}
        \cup {ValidPrefix(o) \o <<w, cb>> : w \in WindowValues, cb \in Shapes}
        \cup {ValidPrefix(o) \o <<Undefined, cb, Function(2)>> :
                    cb \in {Undefined, Function(1)}}
WrongArgs(o) ==
    UNION {
        {[ValidPrefix(o) EXCEPT ![i] = v] \o rest :
            v \in {x \in Shapes : x.t # ValidPrefix(o)[i].t},
            rest \in {<<>>, <<Undefined, Function(1)>>}} :
        i \in 1..Len(ValidPrefix(o))}
ShortArgs(o) ==
    {SubSeq(ValidPrefix(o), 1, k) : k \in 0..(Len(ValidPrefix(o)) - 1)}
AllArgs(o) == ValidArgs(o) \cup WrongArgs(o) \cup ShortArgs(o)

\* The bytes of string arguments: the zero byte, '/' and 'a'.
Bytes == {0, 47, 97}
ByteStrings == UNION {[1..k -> Bytes] : k \in 0..MaxLen}
\* Number arguments, inside and outside the range of a 32-bit int.
Numbers == {WideNumber(hi, i) : hi \in {-1, 0, 1}, i \in {-1, 0, 3, 7}}
\* The arguments after the checked ones: none, or no window and a callback.
Rests == {<<>>, <<Undefined, Function(1)>>}
\* Calls with every string as the path and every number as the number.
ValueArgs(o) ==
    CASE o = "showMessageBox" ->
            {[ValidPrefix(o) EXCEPT ![1] = k] \o rest :
                k \in Numbers, rest \in Rests}
      [] o = "showOpenDialog" ->
            {<<String(StrT), String(s), k>> \o rest :
                s \in ByteStrings, k \in Numbers, rest \in Rests}
      [] OTHER ->
            {<<String(StrT), String(s)>> \o rest :
                s \in ByteStrings, rest \in Rests}

\* The result of a dialog in which the user accepts what was proposed: the
\* first button, or the default path the primitive was given.
EchoOutcome(c) ==
    CASE op[c] = "showMessageBox" -> MsgOutcome(0)
      [] op[c] = "showOpenDialog" ->
            OpenOutcome(TRUE, <<nativeCall[c].default_path>>)
      [] OTHER -> SaveOutcome(TRUE, nativeCall[c].default_path)

----------------------------------------------------------------------------
(* Specifications.                                                          *)

\* The bridge with a native layer that may do anything with the completion
\* handler: run it before or after the call returns, on any thread, any
\* number of times, or destroy it without running it.
Next ==
    \E c \in CallIds :
        \/ \E a \in CoreArgs("showMessageBox") : ShowMessageBox(c, a)
        \/ \E a \in CoreArgs("showOpenDialog") : ShowOpenDialog(c, a)
        \/ \E a \in CoreArgs("showSaveDialog") : ShowSaveDialog(c, a)
        \/ \E res \in CoreOutcomes(op[c]) : NativeSyncReturn(c, res)
        \/ NativeAsyncReturn(c)
        \/ \E res \in CoreOutcomes(op[c]), th \in Threads, luck \in Lucks :
                RunCompletion(c, res, th, luck)
        \/ NativeDrop(c)

Spec == Init /\ [][Next]_vars

\* One call with every argument list, over the same native layer.
NextArgs ==
    \/ \E a \in AllArgs("showMessageBox") : ShowMessageBox(1, a)
    \/ \E a \in AllArgs("showOpenDialog") : ShowOpenDialog(1, a)
    \/ \E a \in AllArgs("showSaveDialog") : ShowSaveDialog(1, a)
    \/ \E res \in CoreOutcomes(op[1]) : NativeSyncReturn(1, res)
    \/ NativeAsyncReturn(1)
    \/ \E res \in CoreOutcomes(op[1]), th \in Threads, luck \in Lucks :
            RunCompletion(1, res, th, luck)
    \/ NativeDrop(1)

SpecArgs == Init /\ [][NextArgs]_vars

\* The native layer keeps to its contract: it runs each completion handler
\* exactly once, on the engine's thread, and destroys it afterwards.
ContractRun(c, res) ==
    /\ runs[c] = 0
    /\ RunCompletion(c, res, "engine", "call")

ContractDrop(c) ==
    /\ runs[c] = 1
    /\ NativeDrop(c)

NextContract ==
    \E c \in CallIds :
        \/ \E a \in CoreArgs("showMessageBox") : ShowMessageBox(c, a)
        \/ \E a \in CoreArgs("showOpenDialog") : ShowOpenDialog(c, a)
        \/ \E a \in CoreArgs("showSaveDialog") : ShowSaveDialog(c, a)
        \/ \E res \in Outcomes(op[c]) : NativeSyncReturn(c, res)
        \/ NativeAsyncReturn(c)
        \/ \E res \in Outcomes(op[c]) : ContractRun(c, res)
        \/ ContractDrop(c)

SpecContract == Init /\ [][NextContract]_vars

\* The same native layer with the dialog results of Spec, and fair: every
\* primitive returns and every dialog is resolved in the end.
NextFair ==
    \E c \in CallIds :
        \/ \E a \in CoreArgs("showMessageBox") : ShowMessageBox(c, a)
        \/ \E a \in CoreArgs("showOpenDialog") : ShowOpenDialog(c, a)
        \/ \E a \in CoreArgs("showSaveDialog") : ShowSaveDialog(c, a)
        \/ \E res \in CoreOutcomes(op[c]) : NativeSyncReturn(c, res)
        \/ NativeAsyncReturn(c)
        \/ \E res \in CoreOutcomes(op[c]) : ContractRun(c, res)
        \/ ContractDrop(c)

Fairness ==
    \A c \in CallIds :
        /\ WF_vars(\E res \in CoreOutcomes(op[c]) : NativeSyncReturn(c, res))
        /\ WF_vars(NativeAsyncReturn(c))
        /\ WF_vars(\E res \in CoreOutcomes(op[c]) : ContractRun(c, res))

SpecFair == Init /\ [][NextFair]_vars /\ Fairness

\* The native layer runs a completion handler at most once, on the engine's
\* thread, and may destroy it at any time, also before it ran.
NextAtMostOnce ==
    \E c \in CallIds :
        \/ \E a \in CoreArgs("showMessageBox") : ShowMessageBox(c, a)
        \/ \E a \in CoreArgs("showOpenDialog") : ShowOpenDialog(c, a)
        \/ \E a \in CoreArgs("showSaveDialog") : ShowSaveDialog(c, a)
        \/ \E res \in Outcomes(op[c]) : NativeSyncReturn(c, res)
        \/ NativeAsyncReturn(c)
        \/ \E res \in Outcomes(op[c]) : ContractRun(c, res)
        \/ NativeDrop(c)

SpecAtMostOnce == Init /\ [][NextAtMostOnce]_vars

\* One call with every string and number argument, over a native layer that
\* keeps to its contract and whose dialogs are accepted as proposed.
NextValues ==
    \/ \E a \in ValueArgs("showMessageBox") : ShowMessageBox(1, a)
    \/ \E a \in ValueArgs("showOpenDialog") : ShowOpenDialog(1, a)
    \/ \E a \in ValueArgs("showSaveDialog") : ShowSaveDialog(1, a)
    \/ NativeSyncReturn(1, EchoOutcome(1))
    \/ NativeAsyncReturn(1)
    \/ ContractRun(1, EchoOutcome(1))
    \/ ContractDrop(1)

SpecValues == Init /\ [][NextValues]_vars

----------------------------------------------------------------------------
(* Vocabulary of the properties.                                            *)

\* Call c passed validation.
Validated(c) == pc[c] \in {"native_sync", "native_async", "returned"}
\* The primitive call c invoked.
Sync(c) == nativeCall[c].form = "sync"
Async(c) == nativeCall[c].form = "async"
\* The value in the callback position of call c.
CallbackArg(c) == Arg(args[c], CallbackIndex(op[c]))
\* The value in the window position of call c.
WindowArg(c) == Arg(args[c], WindowIndex(op[c]))
\* A function stands at a position of call c other than the callback's.
FunctionElsewhere(c) ==
    \E i \in 0..(Len(args[c]) - 1) :
        i # CallbackIndex(op[c]) /\ Arg(args[c], i).t = "function"
FunctionSupplied(c) == pc[c] # "idle" /\ CallbackArg(c).t = "function"
\* The reference call c created is still held.
HandleLive(c) == callback[c] # 0 /\ cellFn[callback[c]].call = c
\* Nothing more can happen to call c.
Over(c) ==
    \/ pc[c] = "threw"
    \/ pc[c] = "returned" /\ Sync(c)
    \/ pc[c] = "returned" /\ Async(c) /\ bound[c] = "dropped"

\* The shapes the checked arguments must have, by operation.
ShapesOK(o, a) ==
    CASE o = "showMessageBox" ->
            /\ Arg(a, 0).t = "number"
            /\ Arg(a, 1).t = "array"
            /\ Arg(a, 2).t = "string"
            /\ Arg(a, 3).t = "string"
            /\ Arg(a, 4).t = "string"
      [] o = "showOpenDialog" ->
            /\ Arg(a, 0).t = "string"
            /\ Arg(a, 1).t = "string"
            /\ Arg(a, 2).t = "number"
      [] OTHER ->
            /\ Arg(a, 0).t = "string"
            /\ Arg(a, 1).t = "string"

----------------------------------------------------------------------------
----------------------------------------------------------------------------
(* C2. A function supplied in the callback position is invoked exactly     *)
(* once over the lifetime of the call. As stated: once nothing more can    *)
(* happen to a call that was given a function, the function has been       *)
(* invoked exactly once.                                                   *)
C2_SuppliedFunctionInvokedOnce ==
    \A c \in CallIds :
        FunctionSupplied(c) /\ Over(c) => Len(fires[c]) = 1

(* C2, amended: a function supplied in the callback position of a call     *)
(* that passes validation is invoked in the end and never a second time,   *)
(* with a native layer that runs the completion handler exactly once; a    *)
(* rejected call and a synchronous call never invoke a callback.           *)
C2_ValidatedFunctionInvokedOnce ==
    /\ [](\A c \in CallIds :
            /\ Len(fires[c]) <= 1
            /\ (pc[c] = "threw" \/ Sync(c)) => fires[c] = <<>>)
    /\ \A c \in CallIds :
            (Validated(c) /\ FunctionSupplied(c)) ~> (Len(fires[c]) = 1)

C2_Witness ==
    \E c, d \in CallIds :
        /\ FunctionSupplied(c) /\ Validated(c) /\ Over(c)
        /\ Len(fires[c]) = 1 /\ fires[c][1].fn = CallbackArg(c).n
        /\ FunctionSupplied(d) /\ pc[d] = "threw"

----------------------------------------------------------------------------
(* C3. A call with a checked argument of the wrong shape, or missing, ends *)
(* with the type error "Bad argument" and has no effect: no native         *)
(* primitive is invoked, no callback reference is made or kept, and the    *)
(* callback is never invoked.                                              *)
C3_RejectedCallHasNoEffect ==
    \A c \in CallIds :
        pc[c] # "idle" /\ ~ShapesOK(op[c], args[c]) =>
            /\ pc[c] = "threw"
            /\ ret[c] = [kind |-> "TypeError", val |-> Undefined,
                         msg |-> "Bad argument"]
            /\ nativeCall[c] = NoNativeCall
            /\ bound[c] = "none"
            /\ callback[c] = 0
            /\ \A k \in Cells : cellFn[k].call # c
            /\ fires[c] = <<>>
            /\ runs[c] = 0

C3_Witness ==
    \E c \in CallIds :
        /\ op[c] = "showMessageBox"
        /\ Arg(args[c], 0).t = "number"
        /\ Arg(args[c], 1).t = "object"
        /\ Arg(args[c], 6).t = "function"
        /\ pc[c] = "threw"

----------------------------------------------------------------------------
(* C4. Mode equivalence: for the same operation and the same native        *)
(* outcome, the value a call without a callback returns equals the single  *)
(* value the callback of a call with a callback receives.                  *)
C4_ModeEquivalence ==
    \A c, d \in CallIds :
        ( /\ op[c] = op[d]
          /\ Sync(c) /\ pc[c] = "returned"
          /\ Async(d) /\ runs[d] = 1
          /\ outcome[c] = outcome[d] ) =>
            /\ Len(fires[d]) = 1
            /\ ret[c].kind = "value"
            /\ fires[d][1].val = ret[c].val

C4_Witness ==
    \E c, d \in CallIds :
        /\ op[c] = "showOpenDialog" /\ op[d] = "showOpenDialog"
        /\ Sync(c) /\ pc[c] = "returned"
        /\ Async(d) /\ runs[d] = 1
        /\ outcome[c] = OpenOutcome(TRUE, <<PathA, PathB>>)
        /\ outcome[d] = outcome[c]
        /\ fires[d][1].val = Array(<<PathA, PathB>>)

----------------------------------------------------------------------------
(* C5. The callback of an asynchronous call is invoked only after the call *)
(* has returned, also when the native primitive runs the completion        *)
(* handler before it returns.                                              *)
C5_CallbackOnlyAfterReturn ==
    \A c \in CallIds : \A i \in DOMAIN fires[c] :
        fires[c][i].pcAt = "returned"

----------------------------------------------------------------------------
(* C6. A callback handle never fires twice, is never invoked after it has  *)
(* been disposed, and is disposed once it has fired, however often the     *)
(* native layer runs the completion handler.                               *)
C6_HandleLifecycle ==
    \A c \in CallIds :
        /\ Len(fires[c]) <= 1
        /\ \A i \in DOMAIN fires[c] : fires[c][i].live
        /\ fires[c] # <<>> => ~HandleLive(c)

----------------------------------------------------------------------------
(* C7. For a call whose checked arguments have the right shapes, a         *)
(* function in the callback position selects the asynchronous primitive,   *)
(* and any other value gives an empty handle and selects the synchronous   *)
(* primitive, without an error, whatever the window argument is.           *)
C7_ModeByCallbackOnly ==
    \A c \in CallIds :
        pc[c] # "idle" /\ ShapesOK(op[c], args[c]) =>
            /\ Validated(c)
            /\ ret[c].kind # "TypeError"
            /\ CallbackArg(c).t = "function" => Async(c) /\ callback[c] # 0
            /\ CallbackArg(c).t # "function" =>
                    Sync(c) /\ callback[c] = 0 /\ fires[c] = <<>>

C7_Witness ==
    \E c \in CallIds :
        /\ op[c] = "showSaveDialog"
        /\ Arg(args[c], 2).t = "function"
        /\ CallbackArg(c) = Object(0)
        /\ Sync(c) /\ pc[c] = "returned" /\ ret[c].kind = "value"

----------------------------------------------------------------------------
(* C8. Cancellation of an open or save dialog is no error: the synchronous *)
(* call returns undefined; the asynchronous call returns undefined and its *)
(* callback is invoked exactly once with undefined, whatever result came   *)
(* with the false flag.                                                    *)
C8_CancellationIsUndefined ==
    \A c \in CallIds :
        ( /\ op[c] \in {"showOpenDialog", "showSaveDialog"}
          /\ Validated(c)
          /\ ~outcome[c].ok ) =>
            /\ ret[c].kind # "TypeError"
            /\ pc[c] = "returned" => ret[c] = Return(Undefined)
            /\ Sync(c) => fires[c] = <<>>
            /\ Async(c) /\ runs[c] = 1 =>
                    /\ Len(fires[c]) = 1
                    /\ fires[c][1].val = Undefined

C8_Witness ==
    \E c, d \in CallIds :
        /\ op[c] = "showOpenDialog" /\ Async(c) /\ runs[c] = 1
        /\ outcome[c] = OpenOutcome(FALSE, <<PathA>>)
        /\ Len(fires[c]) = 1 /\ fires[c][1].val = Undefined
        /\ pc[c] = "returned"
        /\ op[d] = "showSaveDialog" /\ Sync(d) /\ pc[d] = "returned"
        /\ outcome[d] = SaveOutcome(FALSE, PathB)
        /\ ret[d] = Return(Undefined)

----------------------------------------------------------------------------
(* C9. The callback is invoked only on the engine's thread, also when the  *)
(* native layer runs the completion handler on another thread.             *)
C9_CallbackOnEngineThread ==
    \A c \in CallIds : \A i \in DOMAIN fires[c] :
        fires[c][i].thread = "engine"

----------------------------------------------------------------------------
(* C10. The live callback references are as many as the asynchronous calls *)
(* whose completion has not fired; a rejected call and a synchronous call  *)
(* hold none; and the reference of a completion handler that never runs is *)
(* released.                                                               *)
C10_NoReferenceLeaks ==
    /\ Cardinality({k \in Cells : cellFn[k] # NoFn})
            = Cardinality({c \in CallIds : Async(c) /\ runs[c] = 0})
    /\ \A c \in CallIds : (pc[c] = "threw" \/ Sync(c)) => callback[c] = 0
    /\ \A c \in CallIds :
            bound[c] = "dropped" /\ runs[c] = 0 => ~HandleLive(c)

----------------------------------------------------------------------------
(* C11. showMessageBox delivers the integer the native primitive yields    *)
(* unchanged in both modes: the synchronous call returns it and the        *)
(* callback receives it, also when it is the dismissal value -1 or lies    *)
(* outside the button indexes; it is never undefined and never an error.   *)
C11_MessageBoxResultUnchanged ==
    \A c \in CallIds :
        op[c] = "showMessageBox" /\ Validated(c) =>
            /\ ret[c].kind # "TypeError"
            /\ Sync(c) /\ pc[c] = "returned" =>
                    /\ ret[c].kind = "value"
                    /\ ret[c].val.t = "number"
                    /\ ret[c].val.h = 0
                    /\ ret[c].val.n = outcome[c].code
            /\ Async(c) /\ runs[c] = 1 =>
                    /\ Len(fires[c]) = 1
                    /\ fires[c][1].val.t = "number"
                    /\ fires[c][1].val.h = 0
                    /\ fires[c][1].val.n = outcome[c].code

C11_Witness ==
    \E c, d \in CallIds :
        /\ op[c] = "showMessageBox" /\ Sync(c) /\ pc[c] = "returned"
        /\ outcome[c].code = -1 /\ ret[c].val.n = -1
        /\ op[d] = "showMessageBox" /\ Async(d) /\ runs[d] = 1
        /\ outcome[d].code = 2 /\ Len(nativeCall[d].buttons) = 2
        /\ fires[d][1].val.n = 2

----------------------------------------------------------------------------
(* C12. The window argument is never shape-checked and never makes a call  *)
(* fail: a call whose checked arguments have the right shapes raises no    *)
(* error whatever stands in the window position; when that value is        *)
(* missing, undefined, a number, a string, a function or an object that    *)
(* carries no native window, the primitive receives an absent window; and  *)
(* the mode depends on the callback argument alone.                        *)
C12_WindowNeverFailsCall ==
    \A c \in CallIds :
        pc[c] # "idle" /\ ShapesOK(op[c], args[c]) =>
            /\ pc[c] # "threw"
            /\ ret[c].kind # "TypeError"
            /\ nativeCall[c].prim # "none"
            /\ ~(WindowArg(c).t = "object" /\ WindowArg(c).n # 0) =>
                    nativeCall[c].window = 0
            /\ nativeCall[c].form = "sync" <=> CallbackArg(c).t # "function"
            /\ nativeCall[c].form = "async" <=> CallbackArg(c).t = "function"

C12_Witness ==
    \E c \in CallIds :
        /\ op[c] = "showOpenDialog"
        /\ WindowArg(c) = Number(7)
        /\ CallbackArg(c).t = "function"
        /\ nativeCall[c].form = "async" /\ nativeCall[c].window = 0
        /\ pc[c] = "returned" /\ ret[c].kind = "value"

----------------------------------------------------------------------------
(* C13. In synchronous mode the value returned is the native result,       *)
(* converted: showMessageBox returns the button index the native layer     *)
(* returned, showSaveDialog returns the string of the path the native      *)
(* layer returned, and showOpenDialog returns an array holding exactly the *)
(* native paths.                                                           *)
C13_SyncReturnsNativeResult ==
    \A c \in CallIds :
        nativeCall[c].form = "sync" /\ pc[c] = "returned" =>
            /\ ret[c].kind = "value"
            /\ op[c] = "showMessageBox" =>
                    ret[c].val = [Undefined EXCEPT !.t = "number",
                                                   !.n = outcome[c].code]
            /\ op[c] = "showSaveDialog" /\ outcome[c].ok =>
                    ret[c].val = [Undefined EXCEPT !.t = "string",
                                                   !.s = outcome[c].path]
            /\ op[c] = "showOpenDialog" /\ outcome[c].ok =>
                    ret[c].val = [Undefined EXCEPT !.t = "array",
                                                   !.a = outcome[c].paths]

C13_Witness ==
    \E c, d \in CallIds :
        /\ op[c] = "showMessageBox" /\ nativeCall[c].form = "sync"
        /\ nativeCall[c].window = 0 /\ pc[c] = "returned"
        /\ outcome[c].code = 0 /\ ret[c].val = Number(0)
        /\ op[d] = "showSaveDialog" /\ nativeCall[d].form = "sync"
        /\ pc[d] = "returned"
        /\ outcome[d] = SaveOutcome(TRUE, PathB) /\ ret[d].val = String(PathB)

----------------------------------------------------------------------------
(* C14. Path round trip: for every scripting string, with or without a     *)
(* zero byte in it, the string made from the native path that the string   *)
(* was coerced to is the same string, byte for byte and of the same        *)
(* length. Stated on showSaveDialog with a dialog that gives back the      *)
(* default path it received: the result equals the path argument.          *)
C14_PathRoundTrip ==
    \A c \in CallIds :
        ( /\ op[c] = "showSaveDialog"
          /\ Validated(c)
          /\ outcome[c] = [ok |-> TRUE, code |-> 0, paths |-> <<>>,
                           path |-> nativeCall[c].default_path] ) =>
            /\ Sync(c) /\ pc[c] = "returned" =>
                    /\ ret[c].val.t = "string"
                    /\ ret[c].val.s = Arg(args[c], 1).s
                    /\ Len(ret[c].val.s) = Len(Arg(args[c], 1).s)
            /\ Async(c) /\ runs[c] = 1 =>
                    /\ Len(fires[c]) = 1
                    /\ fires[c][1].val.t = "string"
                    /\ fires[c][1].val.s = Arg(args[c], 1).s
                    /\ Len(fires[c][1].val.s) = Len(Arg(args[c], 1).s)

----------------------------------------------------------------------------
(* C15. Every call that passes validation invokes one native primitive,    *)
(* once: the primitive of its own operation, in the synchronous form if    *)
(* and only if the callback handle is empty and in the asynchronous form   *)
(* if and only if it is not; and a primitive once invoked for a call is    *)
(* never invoked again or replaced by another for that call.               *)
C15_OnePrimitiveOnce ==
    /\ [](\A c \in CallIds :
            Validated(c) =>
                /\ op[c] = "showMessageBox" => nativeCall[c].prim = "ShowMessageBox"
                /\ op[c] = "showOpenDialog" => nativeCall[c].prim = "ShowOpenDialog"
                /\ op[c] = "showSaveDialog" => nativeCall[c].prim = "ShowSaveDialog"
                /\ nativeCall[c].form \in {"sync", "async"}
                /\ nativeCall[c].form = "sync" <=> callback[c] = 0
                /\ nativeCall[c].form = "async" <=> callback[c] # 0)
    /\ [][\A c \in CallIds :
            nativeCall[c].prim # "none" => nativeCall'[c] = nativeCall[c]]_vars

C15_Witness ==
    \E c \in CallIds :
        /\ op[c] = "showOpenDialog" /\ pc[c] = "returned"
        /\ callback[c] # 0
        /\ nativeCall[c].prim = "ShowOpenDialog"
        /\ nativeCall[c].form = "async"
        /\ bound[c] = "dropped" /\ runs[c] = 1

----------------------------------------------------------------------------
(* C16. Several asynchronous calls may be pending at once and complete in  *)
(* any order: every invocation of a call's callback is made by that call's *)
(* own completion, of the function supplied to that call, with the result  *)
(* of that call's dialog; a call whose completion has not run still holds  *)
(* its live handle and has not fired; and the completion of one call       *)
(* leaves the invocations and the handle of every other call as they were. *)
C16_CompletionsAreIndependent ==
    /\ [](\A c \in CallIds :
            /\ \A i \in DOMAIN fires[c] :
                    /\ fires[c][i].by = c
                    /\ fires[c][i].fn = CallbackArg(c).n
                    /\ fires[c][i].val = CompletionValue(op[c], outcome[c])
            /\ Async(c) /\ runs[c] = 0 => fires[c] = <<>> /\ HandleLive(c)
            /\ Async(c) /\ runs[c] = 1 => Len(fires[c]) = 1 /\ ~HandleLive(c))
    /\ [][\A c, d \in CallIds :
            c # d /\ runs'[c] # runs[c] =>
                /\ fires'[d] = fires[d]
                /\ runs'[d] = runs[d]
                /\ HandleLive(d)' = HandleLive(d)]_vars

C16_Witness ==
    /\ Async(1) /\ Async(2)
    /\ op[1] = "showOpenDialog" /\ op[2] = "showSaveDialog"
    /\ runs[1] = 0 /\ HandleLive(1) /\ fires[1] = <<>>
    /\ runs[2] = 1 /\ ~HandleLive(2)
    /\ Len(fires[2]) = 1 /\ fires[2][1].val = String(PathB)

----------------------------------------------------------------------------
(* C17. showOpenDialog keeps success with no paths apart from              *)
(* cancellation: when the native layer reports success with n paths, the   *)
(* value returned or passed to the callback is an array of exactly n       *)
(* strings in the order of the native list (the empty array for n = 0),    *)
(* and the value is undefined only when the native layer reports failure.  *)
C17_OpenSuccessIsArray ==
    \A c \in CallIds :
        op[c] = "showOpenDialog" /\ Validated(c) =>
            LET done == \/ Sync(c) /\ pc[c] = "returned"
                        \/ Async(c) /\ runs[c] = 1
                v == IF Sync(c) THEN ret[c].val ELSE fires[c][1].val
            IN  done =>
                    /\ Async(c) => Len(fires[c]) = 1
                    /\ outcome[c].ok =>
                            /\ v.t = "array"
                            /\ Len(v.a) = Len(outcome[c].paths)
                            /\ \A i \in 1..Len(v.a) : v.a[i] = outcome[c].paths[i]
                    /\ v.t = "undefined" <=> ~outcome[c].ok

C17_Witness ==
    \E c, d \in CallIds :
        /\ op[c] = "showOpenDialog" /\ Sync(c) /\ pc[c] = "returned"
        /\ outcome[c] = OpenOutcome(TRUE, <<>>)
        /\ ret[c].val.t = "array" /\ ret[c].val.a = <<>>
        /\ op[d] = "showOpenDialog" /\ Async(d) /\ runs[d] = 1
        /\ outcome[d] = OpenOutcome(TRUE, <<>>)
        /\ fires[d][1].val.t = "array" /\ fires[d][1].val.a = <<>>

----------------------------------------------------------------------------
(* C18. The callback is recognised only at its own position. As stated: a  *)
(* function is invoked only if it is the one in the callback position, and *)
(* a call with a function at any other position and none in the callback   *)
(* position invokes nothing, runs in synchronous mode and returns the      *)
(* dialog result directly.                                                 *)
C18_FunctionElsewhereRunsSync ==
    \A c \in CallIds :
        /\ \A i \in DOMAIN fires[c] :
                CallbackArg(c).t = "function" /\ fires[c][i].fn = CallbackArg(c).n
        /\ ( /\ pc[c] # "idle"
             /\ FunctionElsewhere(c)
             /\ CallbackArg(c).t # "function" ) =>
                /\ fires[c] = <<>>
                /\ pc[c] # "threw"
                /\ nativeCall[c].form = "sync"
                /\ pc[c] = "returned" => ret[c].kind = "value"

(* C18, amended: a function is invoked only if it is the one in the        *)
(* callback position. A call with a function at another position and none  *)
(* in the callback position invokes nothing; when the function stands in   *)
(* the window position or after the callback position, the call runs in    *)
(* synchronous mode and returns the dialog result directly; when it stands *)
(* in a shape-checked position, the call is rejected with the type error.  *)
C18_FunctionElsewhereNeverInvoked ==
    \A c \in CallIds :
        /\ \A i \in DOMAIN fires[c] :
                CallbackArg(c).t = "function" /\ fires[c][i].fn = CallbackArg(c).n
        /\ ( /\ pc[c] # "idle"
             /\ FunctionElsewhere(c)
             /\ CallbackArg(c).t # "function" ) =>
                /\ fires[c] = <<>>
                /\ callback[c] = 0
                /\ IF ShapesOK(op[c], args[c])
                   THEN /\ pc[c] # "threw"
                        /\ nativeCall[c].form = "sync"
                        /\ pc[c] = "returned" => ret[c].kind = "value"
                   ELSE /\ pc[c] = "threw"
                        /\ ret[c].kind = "TypeError"
                        /\ nativeCall[c].prim = "none"

C18_Witness ==
    \E c \in CallIds :
        /\ op[c] = "showMessageBox"
        /\ WindowArg(c).t = "function"
        /\ CallbackArg(c) = Undefined /\ Len(args[c]) = 6
        /\ nativeCall[c].form = "sync" /\ pc[c] = "returned"
        /\ ret[c].kind = "value" /\ ret[c].val.t = "number"
        /\ fires[c] = <<>>

----------------------------------------------------------------------------
(* C19. Number coercion: the native integer the primitive receives for the *)
(* kind of showMessageBox and for the properties of showOpenDialog equals  *)
(* the integer value of the scripting number, also outside the range of a  *)
(* 32-bit int and, for the kind, also when it is none of the defined       *)
(* kinds. A scripting number is h * 2^32 + n and the native integer is a   *)
(* 32-bit int k: they are equal exactly when h = 0 and k = n.              *)
C19_NumberCoercionExact ==
    \A c \in CallIds :
        Validated(c) =>
            /\ op[c] = "showMessageBox" =>
                    /\ Arg(args[c], 0).h = 0
                    /\ nativeCall[c].kind = Arg(args[c], 0).n
            /\ op[c] = "showOpenDialog" =>
                    /\ Arg(args[c], 2).h = 0
                    /\ nativeCall[c].properties = Arg(args[c], 2).n

====
